---- MODULE Spec2Model ----
(***************************************************************************)
(* FlowFit API client: token store, request wrapper with refresh-and-retry *)
(* on 401, refresh flow, and the auth call group (login, register, logout, *)
(* checkAuth).                                                             *)
(*                                                                         *)
(* JavaScript runs one continuation at a time, so an action is the         *)
(* synchronous code between two awaits.  The await of fetch and the await  *)
(* of response.json() that follows it are one step: nothing shared is read *)
(* or written between them.  The return of apiRequest and the resumption   *)
(* of its caller are two steps: other continuations can run in between.    *)
(* A local is kept only while the code can still read it.                  *)
(*                                                                         *)
(* The utilities and UI helpers (getExercises, formatDuration,             *)
(* LoadingManager, Toast) and the token store called on its own have       *)
(* specifications of their own further down; they share no state with the  *)
(* requests, and there the two source files of the repository differ, so   *)
(* the file in use is part of their initial state.                         *)
(***************************************************************************)
EXTENDS Integers, Sequences, FiniteSets, TLC

\* ------------------------------------------------------------------ bounds
\* Number of distinct credential pairs the server can issue.
NumTokens == 1

\* Operations the page starts in one run.
MaxOps == 2

\* Concurrent asynchronous call chains (operations in flight at once).
Procs == {"p1", "p2"}

\* ------------------------------------------------------------- JS values
\* Every JavaScript value is a record tagged with its type.
NULL == [t |-> "null"]
UNDEFINED == [t |-> "undefined"]
Str(s, i) == [t |-> "str", s |-> s, i |-> i]

AccessTok(i) == Str("A", i)
RefreshTok(i) == Str("R", i)
USER == [t |-> "obj", s |-> "user"]
PAYLOAD == [t |-> "obj", s |-> "payload"]

\* String(v) as applied by localStorage.setItem and by template literals.
StringOf(v) ==
    IF v = UNDEFINED THEN Str("undefined", 0)
    ELSE IF v = NULL THEN Str("null", 0)
    ELSE v

\* JSON.stringify(v): undefined stays undefined, an object becomes its text.
Stringify(v) == IF v = UNDEFINED THEN UNDEFINED ELSE [t |-> "json", v |-> v]

Truthy(v) == v \notin {NULL, UNDEFINED}

Bearer(tok) == [t |-> "Bearer", tok |-> StringOf(tok)]
NoHeader == [t |-> "none"]

\* ------------------------------------------------------- server responses
Statuses == {200, 401, 500}

\* Credential pairs of a response: well formed, or with a field missing.
TokenPairs ==
    {<<AccessTok(i), RefreshTok(i)>> : i \in 1..NumTokens}
        \cup {<<AccessTok(1), UNDEFINED>>, <<UNDEFINED, RefreshTok(1)>>}

CredsOf(tp, u) ==
    [t |-> "creds", accessToken |-> tp[1], refreshToken |-> tp[2], user |-> u]

\* data.data of a login / register response, and of a refresh response
\* (whose user field nobody reads).
LoginData ==
    {CredsOf(tp, USER) : tp \in TokenPairs}
RefreshData == {CredsOf(tp, UNDEFINED) : tp \in TokenPairs}

\* data.data by endpoint family.
DataOf(o) ==
    IF o = "login" THEN LoginData \cup {UNDEFINED}
    ELSE IF o = "refresh" THEN RefreshData \cup {UNDEFINED}
    ELSE IF o = "checkAuth" THEN {USER, UNDEFINED}
    ELSE {PAYLOAD, UNDEFINED}

\* A response body: text that is not JSON, the JSON value null, an error
\* envelope, or a success envelope with or without data.
Bodies(o) ==
    {[t |-> "invalid"], NULL,
     [t |-> "obj", success |-> FALSE, data |-> UNDEFINED]}
        \cup {[t |-> "obj", success |-> TRUE, data |-> d] : d \in DataOf(o)}

\* The outcome of one fetch: a transport failure or a response.  Only the
\* refresh flow reads the envelope of a non-2xx response (it never looks at
\* the status); for the other endpoints such a response carries an error.
Outcomes(o) ==
    {[net |-> FALSE]}
        \cup {r \in [net : {TRUE}, status : Statuses, body : Bodies(o)] :
                \/ o = "refresh"
                \/ r.status = 200
                \/ r.body.t # "obj"
                \/ ~r.body.success}

\* ------------------------------------------------------------------ state
VARIABLES
    localStorage,   \* keys accessToken, refreshToken, user (NULL = absent)
    location,       \* window.location.href
    op,             \* operation a call chain is running
    pc,             \* the await it is suspended at
    token,          \* apiRequest: const token
    auth,           \* apiRequest: headers['Authorization'] of the last fetch
    refreshed,      \* apiRequest: const refreshed ("none" before the await)
    rdata,          \* refreshAccessToken: data.data written by setTokens
    ret,            \* value apiRequest resolved with
    result,         \* how apiRequest / the operation settled
    sends,          \* fetches of the endpoint issued by this apiRequest
    settled,        \* of those, how many have resolved or rejected
    refreshCalls,   \* invocations of refreshAccessToken by this apiRequest
    refreshFetches, \* fetches of /auth/refresh issued by this apiRequest
    started,        \* operations each call chain has started so far
    ui              \* the utilities and UI helpers, one field for each part

vars == <<localStorage, location, op, pc, token, auth, refreshed, rdata, ret,
          result, sends, settled, refreshCalls, refreshFetches, started, ui>>

\* The state of the utilities and UI helpers, which no request touches.
aux == <<ui>>

variant == ui.variant      \* which of the two source files is loaded
calls == ui.calls          \* calls made so far by the script driving a part
filters == ui.filters      \* WorkoutsAPI.getExercises: its argument
query == ui.query          \* WorkoutsAPI.getExercises: the parameters built
minutes == ui.minutes      \* formatDuration: its argument
formatted == ui.formatted  \* formatDuration: its return value
loaders == ui.loaders      \* DOM: the elements with id global-loader
toasts == ui.toasts        \* DOM: the elements of class toast, in order
shown == ui.shown          \* Toast.show calls made so far

\* ----------------------------------------------------------- TokenManager
getAccessToken == localStorage.accessToken
getRefreshToken == localStorage.refreshToken
getUser == localStorage.user

setTokens(ls, accessToken, refreshToken) ==
    [ls EXCEPT !.accessToken = StringOf(accessToken),
               !.refreshToken = StringOf(refreshToken)]

\* clearTokens that forgets the access token.
clearTokens_keepAccess(ls) == [ls EXCEPT !.refreshToken = NULL, !.user = NULL]

\* clearTokens that forgets the refresh token.
clearTokens_keepRefresh(ls) == [ls EXCEPT !.accessToken = NULL, !.user = NULL]

\* clearTokens that forgets the user record.
clearTokens_keepUser(ls) ==
    [ls EXCEPT !.accessToken = NULL, !.refreshToken = NULL]

clearTokens(ls) ==
    [ls EXCEPT !.accessToken = NULL, !.refreshToken = NULL, !.user = NULL]

setUser(ls, user) == [ls EXCEPT !.user = StringOf(Stringify(user))]

isAuthenticated == Truthy(getAccessToken)

\* ---------------------------------------------------------- handleResponse
\* response.json() rejects on text that is not JSON; reading data.error of
\* a null body is a TypeError; a non-2xx status throws the request error.

handleResponse(r) ==
    IF r.body.t = "invalid" THEN [kind |-> "SyntaxError", data |-> UNDEFINED]
    ELSE IF r.status # 200 THEN
        IF r.body = NULL
            THEN [kind |-> "TypeError", data |-> UNDEFINED]
            ELSE [kind |-> "RequestError", data |-> UNDEFINED]
    ELSE [kind |-> "ok", data |-> r.body]

\* ------------------------------------------------------------------- Init
\* No call chain has started.
ProcInit ==
    /\ op = [p \in Procs |-> "none"]
    /\ pc = [p \in Procs |-> "idle"]
    /\ token = [p \in Procs |-> NULL]
    /\ auth = [p \in Procs |-> NoHeader]
    /\ refreshed = [p \in Procs |-> "none"]
    /\ rdata = [p \in Procs |-> UNDEFINED]
    /\ ret = [p \in Procs |-> UNDEFINED]
    /\ result = [p \in Procs |-> "none"]
    /\ sends = [p \in Procs |-> 0]
    /\ settled = [p \in Procs |-> 0]
    /\ refreshCalls = [p \in Procs |-> 0]
    /\ refreshFetches = [p \in Procs |-> 0]
    /\ started = [p \in Procs |-> 0]

\* The two source files of the repository: src/api.js and the later copy
\* "api (2).js" (src/unnamed/part_000).  They agree on the token store and
\* the request wrapper but for the catch of apiRequest, where the request
\* model follows part_000; the utilities and UI helpers differ.
Variants == {"api.js", "part_000"}

\* Nothing has been called yet and the document has no loader and no toast.
UiIdle ==
    [variant |-> "part_000", calls |-> <<>>, filters |-> <<>>, query |-> <<>>,
     minutes |-> 0, formatted |-> "", loaders |-> <<>>, toasts |-> <<>>,
     shown |-> 0]

AuxInit == ui = UiIdle

\* A fresh page: signed out, or signed in by an earlier visit.
NoSession == [accessToken |-> NULL, refreshToken |-> NULL, user |-> NULL]

FreshStores ==
    {NoSession,
     [accessToken |-> AccessTok(0), refreshToken |-> RefreshTok(0),
      user |-> Stringify(USER)]}

Init ==
    /\ localStorage \in FreshStores
    /\ location = "page"
    /\ ProcInit
    /\ AuxInit

\* No request is made: the store and the call chains stay as they are.
RequestsIdle ==
    /\ localStorage = NoSession
    /\ location = "page"
    /\ ProcInit

\* ------------------------------------------------------------- apiRequest
\* catch of apiRequest: a TypeError (rejected fetch, or property read of a
\* null body) is rethrown as the network error, anything else as it is.
apiCatch(kind) == IF kind = "TypeError" THEN "NetworkError" ELSE kind

\* apiRequest settles with outcome o = [kind, data] and its frame (token,
\* headers, refresh data) is gone; its caller resumes in a later step.  A
\* resource call hands the payload to the page unread.
Settle(p, o) ==
    /\ result' = [result EXCEPT ![p] = apiCatch(o.kind)]
    /\ ret' = [ret EXCEPT ![p] = IF op[p] = "request" THEN UNDEFINED ELSE o.data]
    /\ pc' = [pc EXCEPT ![p] = "ret"]
    /\ token' = [token EXCEPT ![p] = NULL]
    /\ auth' = [auth EXCEPT ![p] = NoHeader]
    /\ rdata' = [rdata EXCEPT ![p] = UNDEFINED]

\* The operation settles with res: the value apiRequest resolved with has
\* been consumed; what its apiRequest did on the network stays on record
\* until the chain starts its next operation.
Finish(p, res) ==
    /\ pc' = [pc EXCEPT ![p] = "done"]
    /\ result' = [result EXCEPT ![p] = res]
    /\ ret' = [ret EXCEPT ![p] = UNDEFINED]
    /\ UNCHANGED <<token, auth, rdata, refreshed, sends, settled, refreshCalls,
                   refreshFetches>>

\* apiRequest up to its first await: read the token, build the headers, fetch.
ApiStart(p, o) ==
    /\ op' = [op EXCEPT ![p] = o]
    /\ pc' = [pc EXCEPT ![p] = "fetch"]
    /\ token' = [token EXCEPT ![p] = getAccessToken]
    /\ auth' = [auth EXCEPT ![p] =
                  IF Truthy(getAccessToken) THEN Bearer(getAccessToken) ELSE NoHeader]
    /\ refreshed' = [refreshed EXCEPT ![p] = "none"]
    /\ rdata' = [rdata EXCEPT ![p] = UNDEFINED]
    /\ ret' = [ret EXCEPT ![p] = UNDEFINED]
    /\ result' = [result EXCEPT ![p] = "none"]
    /\ sends' = [sends EXCEPT ![p] = 1]
    /\ settled' = [settled EXCEPT ![p] = 0]
    /\ refreshCalls' = [refreshCalls EXCEPT ![p] = 0]
    /\ refreshFetches' = [refreshFetches EXCEPT ![p] = 0]
    /\ started' = [started EXCEPT ![p] = @ + 1]
    /\ UNCHANGED <<localStorage, location>>

\* An operation that settles without any await.
SyncDone(p, o) ==
    /\ op' = [op EXCEPT ![p] = o]
    /\ started' = [started EXCEPT ![p] = @ + 1]
    /\ pc' = [pc EXCEPT ![p] = "done"]
    /\ result' = [result EXCEPT ![p] = "ok"]
    /\ refreshed' = [refreshed EXCEPT ![p] = "none"]
    /\ sends' = [sends EXCEPT ![p] = 0]
    /\ settled' = [settled EXCEPT ![p] = 0]
    /\ refreshCalls' = [refreshCalls EXCEPT ![p] = 0]
    /\ refreshFetches' = [refreshFetches EXCEPT ![p] = 0]
    /\ UNCHANGED <<token, auth, rdata, ret>>

RECURSIVE Total(_, _)
Total(f, S) ==
    IF S = {} THEN 0
    ELSE LET x == CHOOSE y \in S : TRUE IN f[x] + Total(f, S \ {x})

Free(p) == pc[p] \in {"idle", "done"} /\ Total(started, Procs) < MaxOps

\* A resource call (getProfile, getStats, ...): return await apiRequest(...).
StartRequest(p) ==
    /\ Free(p)
    /\ ApiStart(p, "request")
    /\ UNCHANGED aux

\* The resource call settles as its apiRequest did.
RequestCont(p) ==
    /\ pc[p] = "ret"
    /\ op[p] = "request"
    /\ Finish(p, result[p])
    /\ UNCHANGED <<localStorage, location, op, started>>
    /\ UNCHANGED aux

\* AuthAPI.login and AuthAPI.register up to the await of apiRequest: the two
\* differ in the endpoint and the request body only, and "login" names both.
StartLogin(p) ==
    /\ Free(p)
    /\ ApiStart(p, "login")
    /\ UNCHANGED aux

\* refreshAccessToken without its early return.
NoRefreshToken_unguarded(refreshToken) == FALSE

\* refreshAccessToken: if (!refreshToken) return false;
NoRefreshToken(refreshToken) == ~Truthy(refreshToken)

\* The first fetch settles with outcome r.  On 401 with a token, refreshAccessToken runs up
\* to its own first await: without a stored refresh token it returns false
\* at once, otherwise it posts to /auth/refresh.  The token is last read by
\* the 401 test, and the refresh data by the step after the refresh.
FetchRespWith(p, r) ==
    /\ pc[p] = "fetch"
    /\ settled' = [settled EXCEPT ![p] = 1]
    /\ IF ~r.net THEN
          /\ Settle(p, [kind |-> "TypeError", data |-> UNDEFINED])
          /\ UNCHANGED <<refreshed, refreshCalls, refreshFetches>>
       ELSE IF r.status = 401 /\ Truthy(token[p]) THEN
          /\ refreshCalls' = [refreshCalls EXCEPT ![p] = @ + 1]
          /\ IF NoRefreshToken(getRefreshToken)
               THEN /\ refreshed' = [refreshed EXCEPT ![p] = "false"]
                    /\ pc' = [pc EXCEPT ![p] = "afterRefresh"]
                    /\ UNCHANGED refreshFetches
               ELSE /\ refreshFetches' = [refreshFetches EXCEPT ![p] = @ + 1]
                    /\ pc' = [pc EXCEPT ![p] = "refresh"]
                    /\ UNCHANGED refreshed
          /\ token' = [token EXCEPT ![p] = NULL]
          /\ UNCHANGED <<ret, result, auth, rdata>>
       ELSE
          /\ Settle(p, handleResponse(r))
          /\ UNCHANGED <<refreshed, refreshCalls, refreshFetches>>
    /\ UNCHANGED <<localStorage, location, op, sends, started>>
    /\ UNCHANGED aux

\* The first fetch settles with some outcome.
FetchResp(p) ==
    /\ pc[p] = "fetch"
    /\ \E r \in Outcomes(op[p]) : FetchRespWith(p, r)

\* refreshAccessToken from the settling of its fetch to its return value:
\* the status is never looked at; a body with success and data is written
\* through setTokens, and every exception is caught and turned into false.
refreshAccessToken(ls, r) ==
    IF r.net /\ r.body.t = "obj" /\ r.body.success /\ Truthy(r.body.data)
    THEN [refreshed |-> "true",
          ls |-> setTokens(ls, r.body.data.accessToken, r.body.data.refreshToken),
          data |-> r.body.data]
    ELSE [refreshed |-> "false", ls |-> ls, data |-> UNDEFINED]

RefreshResp(p) ==
    /\ pc[p] = "refresh"
    /\ \E r \in Outcomes("refresh") :
         LET out == refreshAccessToken(localStorage, r) IN
         /\ localStorage' = out.ls
         /\ refreshed' = [refreshed EXCEPT ![p] = out.refreshed]
         /\ rdata' = [rdata EXCEPT ![p] = out.data]
    /\ pc' = [pc EXCEPT ![p] = "afterRefresh"]
    /\ UNCHANGED <<location, op, token, auth, ret, result, sends, settled,
                   refreshCalls, refreshFetches, started>>
    /\ UNCHANGED aux

\* AfterRefresh that retries with the headers of the first attempt.
AfterRefresh_staleHeader(p) ==
    /\ pc[p] = "afterRefresh"
    /\ IF refreshed[p] = "true"
         THEN /\ sends' = [sends EXCEPT ![p] = @ + 1]
              /\ pc' = [pc EXCEPT ![p] = "retry"]
              /\ rdata' = [rdata EXCEPT ![p] = UNDEFINED]
              /\ UNCHANGED <<localStorage, location, ret, result, token, auth>>
         ELSE /\ localStorage' = clearTokens(localStorage)
              /\ location' = "login.html"
              /\ Settle(p, [kind |-> "SessionExpired", data |-> UNDEFINED])
              /\ UNCHANGED sends
    /\ UNCHANGED <<op, refreshed, settled, refreshCalls, refreshFetches, started>>
    /\ UNCHANGED aux

\* AfterRefresh that does not await the retry: it issues the fetch and
\* settles at once.
AfterRefresh_noAwait(p) ==
    /\ pc[p] = "afterRefresh"
    /\ IF refreshed[p] = "true"
         THEN /\ sends' = [sends EXCEPT ![p] = @ + 1]
              /\ Settle(p, [kind |-> "ok", data |-> NULL])
              /\ UNCHANGED <<localStorage, location>>
         ELSE /\ localStorage' = clearTokens(localStorage)
              /\ location' = "login.html"
              /\ Settle(p, [kind |-> "SessionExpired", data |-> UNDEFINED])
              /\ UNCHANGED sends
    /\ UNCHANGED <<op, refreshed, settled, refreshCalls, refreshFetches, started>>
    /\ UNCHANGED aux

\* apiRequest resumes after await refreshAccessToken().
AfterRefresh(p) ==
    /\ pc[p] = "afterRefresh"
    /\ IF refreshed[p] = "true"
         THEN /\ auth' = [auth EXCEPT ![p] = Bearer(getAccessToken)]
              /\ sends' = [sends EXCEPT ![p] = @ + 1]
              /\ pc' = [pc EXCEPT ![p] = "retry"]
              /\ rdata' = [rdata EXCEPT ![p] = UNDEFINED]
              /\ UNCHANGED <<localStorage, location, ret, result, token>>
         ELSE /\ localStorage' = clearTokens(localStorage)
              /\ location' = "login.html"
              /\ Settle(p, [kind |-> "SessionExpired", data |-> UNDEFINED])
              /\ UNCHANGED sends
    /\ UNCHANGED <<op, refreshed, settled, refreshCalls, refreshFetches, started>>
    /\ UNCHANGED aux

\* RetryResp that treats a 401 on the retry as a session expiry.
RetryResp_expire(p) ==
    /\ pc[p] = "retry"
    /\ settled' = [settled EXCEPT ![p] = @ + 1]
    /\ \E r \in Outcomes(op[p]) :
         IF ~r.net THEN
            /\ Settle(p, [kind |-> "TypeError", data |-> UNDEFINED])
            /\ UNCHANGED <<localStorage, location>>
         ELSE IF r.status = 401 THEN
            /\ localStorage' = clearTokens(localStorage)
            /\ location' = "login.html"
            /\ Settle(p, [kind |-> "SessionExpired", data |-> UNDEFINED])
         ELSE
            /\ Settle(p, handleResponse(r))
            /\ UNCHANGED <<localStorage, location>>
    /\ UNCHANGED <<op, refreshed, sends, refreshCalls, refreshFetches, started>>
    /\ UNCHANGED aux

\* The retry settles: its response goes to handleResponse whatever its status.
RetryResp(p) ==
    /\ pc[p] = "retry"
    /\ settled' = [settled EXCEPT ![p] = @ + 1]
    /\ \E r \in Outcomes(op[p]) :
         IF ~r.net
            THEN Settle(p, [kind |-> "TypeError", data |-> UNDEFINED])
            ELSE Settle(p, handleResponse(r))
    /\ UNCHANGED <<localStorage, location, op, refreshed, sends, refreshCalls,
                   refreshFetches, started>>
    /\ UNCHANGED aux

\* The step RetryResp takes when the retry's outcome is r.
RetryRespWith(p, r) ==
    /\ RetryResp(p)
    /\ result'[p] = apiCatch(IF r.net THEN handleResponse(r).kind ELSE "TypeError")
    /\ ret'[p] = IF op[p] = "request" \/ ~r.net THEN UNDEFINED
                 ELSE handleResponse(r).data

\* ---------------------------------------------------------------- AuthAPI
\* login / register after await apiRequest: an error propagates; reading
\* data.success of a null body throws; success with data stores the session.
LoginCont(p) ==
    /\ pc[p] = "ret"
    /\ op[p] = "login"
    /\ IF result[p] # "ok" THEN
            Finish(p, result[p]) /\ UNCHANGED localStorage
       ELSE IF ret[p] = NULL THEN
            Finish(p, "TypeError") /\ UNCHANGED localStorage
       ELSE IF ret[p].success /\ Truthy(ret[p].data) THEN
            /\ localStorage' =
                 setUser(setTokens(localStorage, ret[p].data.accessToken,
                                   ret[p].data.refreshToken),
                         ret[p].data.user)
            /\ Finish(p, "ok")
       ELSE Finish(p, "ok") /\ UNCHANGED localStorage
    /\ UNCHANGED <<location, op, started>>
    /\ UNCHANGED aux

\* AuthAPI.logout up to its first await; without a stored refresh token the
\* try block has no await and the finally block runs in the same step.
StartLogout(p) ==
    /\ Free(p)
    /\ IF Truthy(getRefreshToken)
         THEN ApiStart(p, "logout")
         ELSE /\ SyncDone(p, "logout")
              /\ localStorage' = clearTokens(localStorage)
              /\ location' = "index.html"
    /\ UNCHANGED aux

\* LogoutCont without the catch and the finally: a failed call propagates.
LogoutCont_noFinally(p) ==
    /\ pc[p] = "ret"
    /\ op[p] = "logout"
    /\ IF result[p] = "ok"
         THEN /\ localStorage' = clearTokens(localStorage)
              /\ location' = "index.html"
         ELSE UNCHANGED <<localStorage, location>>
    /\ Finish(p, result[p])
    /\ UNCHANGED <<op, started>>
    /\ UNCHANGED aux

\* AuthAPI.logout after await apiRequest: catch logs, finally clears.
LogoutCont(p) ==
    /\ pc[p] = "ret"
    /\ op[p] = "logout"
    /\ localStorage' = clearTokens(localStorage)
    /\ location' = "index.html"
    /\ Finish(p, "ok")
    /\ UNCHANGED <<op, started>>
    /\ UNCHANGED aux

\* checkAuth up to its first await; unauthenticated it returns null at once.
StartCheckAuth(p) ==
    /\ Free(p)
    /\ IF isAuthenticated
         THEN ApiStart(p, "checkAuth")
         ELSE SyncDone(p, "checkAuth") /\ UNCHANGED <<localStorage, location>>
    /\ UNCHANGED aux

\* checkAuth after await getCurrentUser(): success with data caches the user;
\* any exception (a failed request, or response.success of a null body)
\* lands in the catch, which clears the store.
CheckAuthCont(p) ==
    /\ pc[p] = "ret"
    /\ op[p] = "checkAuth"
    /\ localStorage' =
         IF result[p] # "ok" \/ ret[p] = NULL THEN clearTokens(localStorage)
         ELSE IF ret[p].success /\ Truthy(ret[p].data)
              THEN setUser(localStorage, ret[p].data)
         ELSE localStorage
    /\ Finish(p, "ok")
    /\ UNCHANGED <<location, op, started>>
    /\ UNCHANGED aux

\* ------------------------------------------------------------------- Next
Start(p) ==
    \/ StartRequest(p)
    \/ StartLogin(p)
    \/ StartLogout(p)
    \/ StartCheckAuth(p)

Step(p) ==
    \/ FetchResp(p)
    \/ RefreshResp(p)
    \/ AfterRefresh(p)
    \/ RetryResp(p)
    \/ RequestCont(p)
    \/ LoginCont(p)
    \/ LogoutCont(p)
    \/ CheckAuthCont(p)

Next == \E p \in Procs : Start(p) \/ Step(p)

Spec == Init /\ [][Next]_vars

\* One operation at a time: the page awaits each call before the next.
Busy(p) == pc[p] \notin {"idle", "done"}
NextSeq ==
    \E p \in Procs :
        \/ Start(p) /\ \A q \in Procs \ {p} : ~Busy(q)
        \/ Step(p)
SpecSeq == Init /\ [][NextSeq]_vars

\* Every network call eventually resolves or rejects, and the event loop
\* runs every continuation that is ready.
FairSpec == Spec /\ \A p \in Procs : WF_vars(Step(p))

\* --------------------------------------------------------------- helpers
Tokens(ls) == <<ls.accessToken, ls.refreshToken>>
Written(d) == <<StringOf(d.accessToken), StringOf(d.refreshToken)>>
Cleared(ls) == ls.accessToken = NULL /\ ls.refreshToken = NULL /\ ls.user = NULL

\* ----------------------------------------------------------------- C1
\* C1: in every reachable state the access token is present in the store
\* if and only if the refresh token is present.
TokensPaired == (getAccessToken = NULL) <=> (getRefreshToken = NULL)

\* A refresh has just written a pair, and another chain has cleared before.
TokensPaired_witness ==
    \E p \in Procs :
        /\ pc[p] = "afterRefresh"
        /\ refreshed[p] = "true"
        /\ getAccessToken # NULL
        /\ getRefreshToken # NULL
        /\ location = "index.html"

\* ----------------------------------------------------------------- C2
\* C2: with one request at a time, when a refresh triggered by a 401
\* succeeds with (A', R'), the store holds A'/R', the retry is sent with
\* Authorization 'Bearer A'', and the store still holds A'/R' when the
\* retry settles.
RetryUsesNewToken ==
    [][\A p \in Procs :
        /\ (pc[p] = "refresh" /\ refreshed'[p] = "true")
              => Tokens(localStorage') = Written(rdata'[p])
        /\ (pc[p] = "afterRefresh" /\ refreshed[p] = "true" /\ pc'[p] = "retry")
              => /\ auth'[p] = Bearer(rdata[p].accessToken)
                 /\ Tokens(localStorage') = Written(rdata[p])
        /\ (pc[p] = "retry" /\ pc'[p] = "ret")
              => /\ auth[p] = Bearer(localStorage'.accessToken)
                 /\ Tokens(localStorage') = Tokens(localStorage)]_vars

\* Stored (A0, R0), refresh returned (A1, R1), retry in flight with A1.
RetryUsesNewToken_witness ==
    \E p \in Procs :
        /\ pc[p] = "retry"
        /\ auth[p] = Bearer(AccessTok(1))
        /\ Tokens(localStorage) = <<AccessTok(1), RefreshTok(1)>>

\* ----------------------------------------------------------------- C3
\* C3: one apiRequest sends its endpoint request at most twice and invokes
\* refreshAccessToken at most once; a successful refresh is followed by
\* exactly one retry, and when the retry settles the request settles with
\* it: no further send, no refresh, no write to the store, no redirect.
SingleRetry ==
    [][\A p \in Procs :
        /\ sends'[p] <= 2
        /\ refreshCalls'[p] <= 1
        /\ (pc[p] = "afterRefresh" /\ refreshed[p] = "true" /\ pc'[p] # pc[p])
              => pc'[p] = "retry" /\ sends[p] = 1 /\ sends'[p] = 2
        /\ (pc[p] = "retry" /\ pc'[p] # pc[p])
              => /\ pc'[p] = "ret"
                 /\ sends'[p] = 2
                 /\ refreshCalls'[p] = 1
                 /\ refreshFetches'[p] = refreshFetches[p]
                 /\ localStorage' = localStorage
                 /\ location' = location]_vars

\* A retry has settled with a request error (a 401 or a 500 on the retry)
\* and the tokens the refresh wrote are still stored.
SingleRetry_witness ==
    \E p \in Procs :
        /\ pc[p] = "ret"
        /\ sends[p] = 2
        /\ settled[p] = 2
        /\ result[p] = "RequestError"
        /\ getAccessToken # NULL

\* ----------------------------------------------------------------- C4
\* C4: when refreshAccessToken returned false, the request clears access
\* token, refresh token and user record, sets the location to login.html,
\* fails with the session-expired error and sends nothing more.
SessionExpiry ==
    [][\A p \in Procs :
        (pc[p] = "afterRefresh" /\ refreshed[p] = "false" /\ pc'[p] # pc[p])
            => /\ Cleared(localStorage')
               /\ location' = "login.html"
               /\ pc'[p] = "ret"
               /\ result'[p] = "SessionExpired"
               /\ sends'[p] = 1]_vars

\* The refresh fetch was made and failed; the store held a user record.
SessionExpiry_witness ==
    \E p \in Procs :
        /\ pc[p] = "ret"
        /\ result[p] = "SessionExpired"
        /\ refreshFetches[p] = 1
        /\ sends[p] = 1
        /\ Cleared(localStorage)
        /\ location = "login.html"

\* ----------------------------------------------------------------- C5
\* C5: refreshAccessToken invoked while no refresh token is stored returns
\* false, makes no network call and leaves the token store unchanged.
RefreshWithoutToken ==
    [][\A p \in Procs :
        (refreshCalls'[p] = refreshCalls[p] + 1 /\ getRefreshToken = NULL)
            => /\ refreshed'[p] = "false"
               /\ refreshFetches'[p] = refreshFetches[p]
               /\ localStorage' = localStorage]_vars

\* The request was sent with a token, the store was cleared meanwhile, and
\* the 401 invoked a refresh that made no fetch.
RefreshWithoutToken_witness ==
    \E p \in Procs :
        /\ pc[p] = "afterRefresh"
        /\ refreshCalls[p] = 1
        /\ refreshFetches[p] = 0
        /\ refreshed[p] = "false"
        /\ getRefreshToken = NULL

\* ----------------------------------------------------------------- C6
\* C6: refreshAccessToken returns true only on a response that carries new
\* credentials (both fields), which it stores; on every other outcome it
\* returns false and leaves the token store exactly as it was.
RefreshAllOrNothing ==
    [][\A p \in Procs :
        (pc[p] = "refresh" /\ pc'[p] # pc[p])
            => IF refreshed'[p] = "true"
                 THEN /\ Truthy(rdata'[p].accessToken)
                      /\ Truthy(rdata'[p].refreshToken)
                      /\ Tokens(localStorage') = Written(rdata'[p])
                 ELSE refreshed'[p] = "false" /\ localStorage' = localStorage]_vars

\* ----------------------------------------------------------------- C7
\* C7: when two requests both received 401 and each invoked its own
\* refresh, a valid pair written by one request's successful refresh is not
\* erased by the other request.
NoEraseByOtherRequest ==
    [][\A p, q \in Procs :
        (/\ p # q
         /\ op[p] = "request" /\ op[q] = "request"
         /\ refreshCalls[p] = 1 /\ refreshCalls[q] = 1
         /\ pc[p] = "afterRefresh" /\ refreshed[p] = "true"
         /\ Truthy(rdata[p].accessToken) /\ Truthy(rdata[p].refreshToken)
         /\ Tokens(localStorage) = Written(rdata[p])
         /\ pc[q] = "afterRefresh" /\ pc'[q] # pc[q])
            => Tokens(localStorage') = Tokens(localStorage)]_vars

\* ----------------------------------------------------------------- C8
\* C8: a request that received 401 with a token present delivers no outcome
\* before its refresh has resolved and, after a successful refresh, before
\* its retry has settled; and every such request eventually delivers one.
Delivered(p) == pc[p] = "ret"
Pending401(p) == pc[p] \in {"refresh", "afterRefresh", "retry"}

RefreshRetryBeforeReturn ==
    /\ [](\A p \in Procs :
            (Delivered(p) /\ refreshCalls[p] = 1)
                => /\ refreshed[p] # "none"
                   /\ settled[p] = sends[p]
                   /\ (refreshed[p] = "true" => sends[p] = 2)
                   /\ (refreshed[p] = "false" => result[p] = "SessionExpired"))
    /\ \A p \in Procs : Pending401(p) ~> Delivered(p)

\* The refresh succeeded, the retry settled, and the payload was delivered.
RefreshRetryBeforeReturn_witness ==
    \E p \in Procs :
        /\ Delivered(p)
        /\ refreshCalls[p] = 1
        /\ refreshed[p] = "true"
        /\ settled[p] = 2
        /\ result[p] = "ok"

\* ----------------------------------------------------------------- C9
\* C9: when AuthAPI.logout completes, whatever its network call did, it
\* resolves without an error, the store holds neither token nor user
\* record, and the location is index.html.
LogoutCompletes(p) ==
    /\ op'[p] = "logout"
    /\ pc'[p] = "done"
    /\ (pc[p] = "ret" \/ started'[p] # started[p])

LogoutBestEffort ==
    [][\A p \in Procs :
        LogoutCompletes(p)
            => /\ result'[p] = "ok"
               /\ Cleared(localStorage')
               /\ location' = "index.html"]_vars

\* A logout that ran alone has completed after its call got 401 and the
\* refresh failed (which had redirected to login.html).
LogoutBestEffort_witness ==
    \E p \in Procs :
        /\ op[p] = "logout"
        /\ pc[p] = "done"
        /\ result[p] = "ok"
        /\ refreshFetches[p] = 1
        /\ refreshed[p] = "false"
        /\ Cleared(localStorage)
        /\ location = "index.html"
        /\ started[p] = 1
        /\ \A q \in Procs \ {p} : started[q] = 0

\* ---------------------------------------------------------------- C10
\* C10: a resource call or a checkAuth that fails with a network error, a
\* non-401 error response or an undecodable body leaves the access token
\* and the refresh token in the store.
TransientFailure(k) == k \in {"NetworkError", "RequestError", "SyntaxError"}

FailureKeepsTokens ==
    [][\A p \in Procs :
        /\ (pc[p] \in {"fetch", "retry"} /\ pc'[p] = "ret"
               /\ TransientFailure(result'[p]))
              => Tokens(localStorage') = Tokens(localStorage)
        /\ (op[p] \in {"request", "checkAuth"} /\ pc[p] = "ret"
               /\ pc'[p] = "done" /\ TransientFailure(result[p]))
              => Tokens(localStorage') = Tokens(localStorage)]_vars

\* ------------------------------------------- TokenManager, called directly
\* The locals and counters of the call chains.
procVars == <<op, pc, token, auth, refreshed, rdata, ret, result, sends,
              settled, refreshCalls, refreshFetches, started>>

\* Calls a script makes to the component it drives.
MaxCalls == 3

\* Any content of the three keys, as earlier calls can have left it.
StoreStates ==
    [accessToken : {NULL, AccessTok(0), Str("undefined", 0)},
     refreshToken : {NULL, RefreshTok(0), Str("undefined", 0)},
     user : {NULL, Stringify(USER)}]

InitStore ==
    /\ localStorage \in StoreStates
    /\ location = "page"
    /\ ProcInit
    /\ AuxInit

\* One more call of the script.
Called(c) == Len(calls) < MaxCalls /\ ui' = [ui EXCEPT !.calls = Append(@, c)]

StoreFrame == UNCHANGED <<location, procVars>>

CallSetTokens ==
    /\ Called("setTokens")
    /\ \E a \in {AccessTok(1), UNDEFINED}, r \in {RefreshTok(1), UNDEFINED} :
         localStorage' = setTokens(localStorage, a, r)
    /\ StoreFrame

CallClearTokens ==
    /\ Called("clearTokens")
    /\ localStorage' = clearTokens(localStorage)
    /\ StoreFrame

CallSetUser ==
    /\ Called("setUser")
    /\ localStorage' = setUser(localStorage, USER)
    /\ StoreFrame

NextStore == CallSetTokens \/ CallClearTokens \/ CallSetUser

SpecStore == InitStore /\ [][NextStore]_vars

\* The last two calls of the script.
LastTwo(a, b) ==
    /\ Len(calls) >= 2
    /\ calls[Len(calls) - 1] = a
    /\ calls[Len(calls)] = b

\* C11: setTokens(access, refresh) followed by clearTokens(), from any
\* prior content of the store (a stored user included), leaves the access
\* token, the refresh token and the user all absent.
SetThenClear == LastTwo("setTokens", "clearTokens") => Cleared(localStorage)

\* A user was stored, tokens were set, and clearTokens left nothing.
SetThenClear_witness ==
    /\ calls = <<"setUser", "setTokens", "clearTokens">>
    /\ getAccessToken = NULL /\ getRefreshToken = NULL /\ getUser = NULL

\* --------------------------------------------- apiRequest without a token
\* Chain p's first fetch went out without a token and is answered by r.
AnonymousAnswer(p, r) ==
    /\ pc[p] = "fetch"
    /\ ~Truthy(token[p])
    /\ FetchRespWith(p, r)

\* The failures that the request wrapper raises from a response it read:
\* the error built from the body, or the decode failure of the body.
RequestFailure(k) == k \in {"RequestError", "SyntaxError"}

\* What a 401 does to a request sent without a token, its failure kind
\* aside: no header, no refresh, no retry, no redirect, store untouched.
NoTokenFrame ==
    [][\A p \in Procs : \A r \in Outcomes(op[p]) :
         (AnonymousAnswer(p, r) /\ r.net /\ r.status = 401)
           => /\ auth[p] = NoHeader
              /\ refreshCalls'[p] = 0 /\ refreshFetches'[p] = 0
              /\ sends'[p] = 1 /\ pc'[p] = "ret"
              /\ localStorage' = localStorage /\ location' = location]_vars

\* C12: an apiRequest issued while no access token is stored sends no
\* Authorization header, and on a 401 it invokes no refresh, sends no
\* retry, issues no redirect, leaves the store unchanged and fails with
\* the request error built from the response body.
NoTokenNoRefresh ==
    [][\A p \in Procs : \A r \in Outcomes(op[p]) :
         (AnonymousAnswer(p, r) /\ r.net /\ r.status = 401)
           => /\ auth[p] = NoHeader
              /\ refreshCalls'[p] = 0 /\ refreshFetches'[p] = 0
              /\ sends'[p] = 1 /\ pc'[p] = "ret"
              /\ localStorage' = localStorage /\ location' = location
              /\ RequestFailure(result'[p])]_vars

\* ------------------------------------------------ failure kind and wire
\* apiRequest of chain p settles in this step on outcome r of its fetch.
SettlesOn(p, r) ==
    \/ pc[p] = "fetch" /\ FetchRespWith(p, r) /\ pc'[p] = "ret"
    \/ pc[p] = "retry" /\ RetryRespWith(p, r)

\* C13: apiRequest fails with the network error if and only if no response
\* was obtained; a failure raised after a response was read (non-2xx
\* status, undecodable or null body, session expiry) is never reported as
\* a network error.
KindMatchesWire ==
    [][\A p \in Procs :
         /\ \A r \in Outcomes(op[p]) :
              SettlesOn(p, r) => (result'[p] = "NetworkError" <=> ~r.net)
         /\ (pc[p] = "afterRefresh" /\ pc'[p] = "ret")
              => result'[p] # "NetworkError"]_vars

\* ------------------------------------------------ WorkoutsAPI.getExercises
\* Filter values a page passes: text and numbers, empty and zero included.
Num(n) == [t |-> "num", n |-> n]
Text(x) == [t |-> "text", x |-> x]
FilterValues == {Text("strength"), Text(""), Num(20), Num(0)}

\* Keys of a filter mapping; the backend route reads the first three.
FilterKeys == {"category", "limit", "page", "difficulty"}
RecognizedFilters == {"category", "limit", "page"}

\* Every mapping from some of the keys to values.
FilterMaps == UNION {[D -> FilterValues] : D \in SUBSET FilterKeys}

\* if (filters.k): the empty string and 0 are falsy.
TruthyFilter(v) == v \notin {Text(""), Num(0)}

\* String(v), as URLSearchParams applies it to each value.
ParamStr(v) == IF v.t = "num" THEN ToString(v.n) ELSE v.x

\* new URLSearchParams(obj): one pair per own key of obj.
URLSearchParams(obj) == [k \in DOMAIN obj |-> ParamStr(obj[k])]

\* src/api.js: validFilters keeps category, limit and page when truthy
\* (filters.limit || 20 is then filters.limit).
validFilters(f) ==
    [k \in {j \in DOMAIN f \cap RecognizedFilters : TruthyFilter(f[j])} |-> f[k]]

\* The parameters getExercises puts after "/workouts?": src/api.js passes
\* validFilters, the later copy passes the mapping as it is.
getExercises(v, f) ==
    URLSearchParams(IF v = "api.js" THEN validFilters(f) ELSE f)

InitExercises ==
    /\ RequestsIdle
    /\ ui \in {[UiIdle EXCEPT !.variant = v, !.filters = f] :
                  v \in Variants, f \in FilterMaps}

\* getExercises(filters) up to the URL it hands to apiRequest.
CallGetExercises ==
    /\ calls = <<>>
    /\ ui' = [ui EXCEPT !.calls = <<"getExercises">>,
                        !.query = getExercises(variant, filters)]
    /\ UNCHANGED <<localStorage, location, procVars>>

NextExercises == CallGetExercises

SpecExercises == InitExercises /\ [][NextExercises]_vars

\* C14: whatever filter mapping is passed to getExercises, the query has no
\* key outside {category, limit, page}, and every recognized key present
\* in the mapping appears in it with exactly its given value.
ExercisesQuery ==
    calls = <<"getExercises">> =>
        /\ DOMAIN query \subseteq RecognizedFilters
        /\ \A k \in DOMAIN filters \cap RecognizedFilters :
             k \in DOMAIN query /\ query[k] = ParamStr(filters[k])

\* The same statement for one source file v.
ExercisesQueryIn(v) == variant = v => ExercisesQuery
ExercisesQuery_api == ExercisesQueryIn("api.js")
ExercisesQuery_part == ExercisesQueryIn("part_000")

\* --------------------------------------------------------- formatDuration
\* Largest duration formatted.
MaxDuration == 130

\* a % b of JavaScript: the remainder takes the sign of the dividend.
JsRem(a, b) == IF a >= 0 THEN a % b ELSE -((-a) % b)

\* src/api.js: the argument is read as seconds.
formatSeconds(seconds) ==
    LET hours == seconds \div 3600
        mins == JsRem(seconds, 3600) \div 60
        secs == JsRem(seconds, 60)
    IN  IF hours > 0 THEN ToString(hours) \o "h " \o ToString(mins) \o "m"
        ELSE IF mins > 0 THEN ToString(mins) \o "m " \o ToString(secs) \o "s"
        ELSE ToString(secs) \o "s"

\* The later copy: the argument is read as minutes.
formatMinutes(mins) ==
    IF mins = 0 \/ mins <= 0 THEN "0m"
    ELSE LET h == mins \div 60
             m == JsRem(mins, 60)
         IN  IF h > 0 /\ m > 0 THEN ToString(h) \o "h " \o ToString(m) \o "m"
             ELSE IF h > 0 THEN ToString(h) \o "h"
             ELSE ToString(m) \o "m"

formatDuration(v, n) ==
    IF v = "api.js" THEN formatSeconds(n) ELSE formatMinutes(n)

InitDuration ==
    /\ RequestsIdle
    /\ ui \in {[UiIdle EXCEPT !.variant = v, !.minutes = n] :
                  v \in Variants, n \in -2..MaxDuration}

CallFormatDuration ==
    /\ calls = <<>>
    /\ ui' = [ui EXCEPT !.calls = <<"formatDuration">>,
                        !.formatted = formatDuration(variant, minutes)]
    /\ UNCHANGED <<localStorage, location, procVars>>

NextDuration == CallFormatDuration

SpecDuration == InitDuration /\ [][NextDuration]_vars

\* The text the statement below asks for.
DurationText(m) ==
    LET h == m \div 60
        r == m % 60
    IN  IF m <= 0 THEN "0m"
        ELSE IF h > 0 /\ r > 0 THEN ToString(h) \o "h " \o ToString(r) \o "m"
        ELSE IF r = 0 THEN ToString(h) \o "h"
        ELSE ToString(r) \o "m"

\* C15: formatDuration(m) for an integer number of minutes m is "0m" when
\* m <= 0, and for m > 0 with h = floor(m / 60) and r = m mod 60 it is
\* "{h}h {r}m" if h > 0 and r > 0, "{h}h" if r = 0 and "{r}m" if h = 0.
DurationFormat ==
    calls = <<"formatDuration">> => formatted = DurationText(minutes)

\* The same statement for the later copy alone.
DurationFormat_part == variant = "part_000" => DurationFormat

\* ---------------------------------------------------------- LoadingManager
\* Messages a page shows: plain text, and text with markup in it.
LoaderMessages == {"Loading...", "Saving...", "<b>Wait</b>"}

\* The text a <p> displays after innerHTML was set to m: markup is parsed.
InnerHTML(m) == IF m = "<b>Wait</b>" THEN "Wait" ELSE m

\* The text a <p> displays after textContent was set to m.
TextContent(m) == m

\* LoadingManager.show(message): the first element with id global-loader is
\* created when there is none; the later copy otherwise rewrites its
\* message, src/api.js leaves it (and has LoadingManager.message for that).
show(v, ls, message) ==
    IF ls = <<>>
    THEN <<[display |-> "flex", text |-> InnerHTML(message)]>>
    ELSE [ls EXCEPT ![1] =
            [display |-> "flex",
             text |-> IF v = "part_000" THEN TextContent(message) ELSE @.text]]

\* LoadingManager.hide()
hide(ls) == IF ls = <<>> THEN ls ELSE [ls EXCEPT ![1].display = "none"]

InitLoader ==
    /\ RequestsIdle
    /\ ui \in {[UiIdle EXCEPT !.variant = v] : v \in Variants}

LoaderFrame == UNCHANGED <<localStorage, location, procVars>>

CallShow ==
    \E m \in LoaderMessages :
        /\ Len(calls) < MaxCalls
        /\ ui' = [ui EXCEPT !.calls = Append(@, [fn |-> "show", message |-> m]),
                            !.loaders = show(variant, loaders, m)]
        /\ LoaderFrame

CallHide ==
    /\ Len(calls) < MaxCalls
    /\ ui' = [ui EXCEPT !.calls = Append(@, [fn |-> "hide"]),
                        !.loaders = hide(loaders)]
    /\ LoaderFrame

NextLoader == CallShow \/ CallHide

SpecLoader == InitLoader /\ [][NextLoader]_vars

\* The script's most recent call was show(m).
JustShown(m) ==
    calls # <<>> /\ calls[Len(calls)] = [fn |-> "show", message |-> m]

\* C16: after any sequence of show(message) and hide() calls there is at
\* most one global-loader element, and right after a show(message) the
\* overlay is visible and displays the message of that call.
LoaderShows ==
    /\ Len(loaders) <= 1
    /\ \A m \in LoaderMessages :
         JustShown(m) =>
            /\ loaders # <<>>
            /\ loaders[1].display = "flex"
            /\ loaders[1].text = m

\* The same statement for the later copy and messages without markup.
LoaderShows_part ==
    /\ Len(loaders) <= 1
    /\ \A m \in LoaderMessages \ {"<b>Wait</b>"} :
         (variant = "part_000" /\ JustShown(m)) =>
            /\ loaders # <<>>
            /\ loaders[1].display = "flex"
            /\ loaders[1].text = m

\* The same statement for src/api.js and messages without markup.
LoaderShows_api ==
    \A m \in LoaderMessages \ {"<b>Wait</b>"} :
        (variant = "api.js" /\ JustShown(m)) =>
            loaders # <<>> /\ loaders[1].text = m

\* ------------------------------------------------------------------- Toast
\* Toast.show calls in one run.
MaxToasts == 4

\* style.top of a new toast in px: the later copy adds 70 per toast in the
\* document; src/api.js sets none and the stylesheet's top: 20px applies.
ToastTop(v, existing) == IF v = "part_000" THEN 20 + Len(existing) * 70 ELSE 20

InitToast ==
    /\ RequestsIdle
    /\ ui \in {[UiIdle EXCEPT !.variant = v] : v \in Variants}

ToastFrame == UNCHANGED <<localStorage, location, procVars>>

\* Toast.show(message, type): the element is appended and its timers set.
ToastShow ==
    /\ shown < MaxToasts
    /\ ui' = [ui EXCEPT !.shown = @ + 1,
                        !.toasts = Append(@, [id |-> shown + 1,
                                              top |-> ToastTop(variant, toasts),
                                              phase |-> "new"])]
    /\ ToastFrame

\* Timers of equal delay fire in the order they were set, so each timer of
\* a toast fires after the same timer of every older toast; the delays
\* themselves are not measured, which allows every order real timers can
\* take, and the document changes only by show and by the removal timer.
\* First timer: classList.add('toast-show').
ToastSlideIn(i) ==
    /\ toasts[i].phase = "new"
    /\ \A j \in 1..(i - 1) : toasts[j].phase # "new"
    /\ ui' = [ui EXCEPT !.toasts[i].phase = "shown"]
    /\ ToastFrame

\* Second timer: classList.remove('toast-show') and the removal timer.
ToastFadeOut(i) ==
    /\ toasts[i].phase = "shown"
    /\ \A j \in 1..(i - 1) : toasts[j].phase = "fading"
    /\ ui' = [ui EXCEPT !.toasts[i].phase = "fading"]
    /\ ToastFrame

\* Removal timer: toast.remove(); the oldest toast goes first.
ToastRemove ==
    /\ toasts # <<>>
    /\ toasts[1].phase = "fading"
    /\ ui' = [ui EXCEPT !.toasts = Tail(@)]
    /\ ToastFrame

ToastTimer ==
    \/ \E i \in 1..Len(toasts) : ToastSlideIn(i)
    \/ \E i \in 1..Len(toasts) : ToastFadeOut(i)
    \/ ToastRemove

NextToast == ToastShow \/ ToastTimer

\* A timer that is set fires.
SpecToast == InitToast /\ [][NextToast]_vars /\ WF_vars(ToastTimer)

\* The toast of the k-th show call is in the document.
ToastPresent(k) == \E i \in 1..Len(toasts) : toasts[i].id = k

\* No two toasts in the document have the same vertical offset.
ToastsApart ==
    \A i, j \in 1..Len(toasts) : i # j => toasts[i].top # toasts[j].top

\* Every toast leaves the document.
ToastsGone == \A k \in 1..MaxToasts : ToastPresent(k) ~> ~ToastPresent(k)

\* C17: for every sequence of Toast.show calls and expiry timers, no two
\* toasts present at the same time have the same vertical offset, and
\* every toast is removed once its display time and fade-out have elapsed.
ToastsApartAndGone == []ToastsApart /\ ToastsGone

\* The offsets in the later copy alone.
ToastsApart_part == variant = "part_000" => ToastsApart

\* ------------------------------------------------- user record and tokens
\* C18: in every reachable state, under every interleaving of requests, a
\* stored user record implies stored tokens; an identity response of
\* checkAuth that arrives after a logout or a session expiry has cleared
\* the store leaves no user record behind.
UserImpliesTokens ==
    getUser # NULL => (getAccessToken # NULL /\ getRefreshToken # NULL)

\* ------------------------------------------------ tokens after a sign-out
\* A logout has run its finally block, or an apiRequest has taken the
\* session-expiry path, and the store holds no token.
SignedOut ==
    /\ Tokens(localStorage) = <<NULL, NULL>>
    /\ \E q \in Procs :
         \/ op[q] = "logout" /\ pc[q] = "done"
         \/ result[q] = "SessionExpired" /\ pc[q] \in {"ret", "done"}

\* C19: once logout or the session-expiry path has cleared the store, no
\* request already in flight writes tokens back: the tokens stay absent
\* until a login or register succeeds, even when a refreshAccessToken
\* started before the clear gets its success response after it.
NoTokensAfterSignOut ==
    [][(SignedOut /\ Tokens(localStorage') # <<NULL, NULL>>)
          => \E p \in Procs : LoginCont(p)]_vars

\* The same for the refresh flow alone.
NoRefreshAfterSignOut ==
    [][SignedOut => \A p \in Procs :
          RefreshResp(p) => Tokens(localStorage') = <<NULL, NULL>>]_vars
====
